---- MODULE Spec2Model ----
(***************************************************************************)
(* Lifecycle state machine of PostgresInstance (src/src/postgres.rs).      *)
(*                                                                         *)
(* One handle, operations issued one at a time.  An async operation runs   *)
(* from its call up to the first await on the engine driver in one step,   *)
(* and from one await to the next (or to its return) in one step; pc is    *)
(* the await the pending operation is suspended at.  The engine driver     *)
(* (postgresql_embedded::PostgreSQL) is external: each of its calls        *)
(* answers "ok" or "err", or does not answer at all.                       *)
(*                                                                         *)
(* An Option<T> is a sequence of length 0 (None) or 1 (Some).              *)
(*                                                                         *)
(* No code path panics while it holds a lock, so the mutexes are never     *)
(* poisoned: lock() always succeeds and the "Failed to acquire state lock" *)
(* returns are left out.  The else branch of start at "if let Some(ref mut *)
(* instance)" cannot be taken, the lines before it having filled           *)
(* async_instance.                                                         *)
(***************************************************************************)
EXTENDS Integers, Sequences, FiniteSets, TLC

\* ---------------------------------------------------------------- bounds
MaxCalls == 4
MaxTicks == 2
MaxCacheTicks == 3
MaxHandles == 2
MaxStarts == 2

\* ------------------------------------------------------ program constants
CacheValiditySecs == 300
DefaultPort == 5432
MaxPort == 65535

\* ports the handle may be constructed with (0 asks the driver for a free one)
ConfigPorts == {0, DefaultPort}
\* the port the driver settles on when it was asked for port 0
EphemeralPort == DefaultPort + 1
\* clock advances between steps, in seconds
TickSteps == {1, 299}

InstanceState == {"Stopped", "Starting", "Running", "Stopping"}

\* the database names the operations are called with
DatabaseNames == {"", "mydb"}

\* ---------------------------------------------------------------- results
\* napi::Result<T>: Ok(()) / Ok(value) / Err(message); Pending while the
\* operation is suspended
OkUnit == [status |-> "ok", msg |-> "", val |-> << >>]
OkVal(v) == [status |-> "ok", msg |-> "", val |-> << v >>]
Err(m) == [status |-> "err", msg |-> m, val |-> << >>]
Pending == [status |-> "pending", msg |-> "", val |-> << >>]

ErrAlreadyRunning == Err("Start failed: PostgreSQL instance is already running")
ErrAlreadyStarting == Err("Start failed: PostgreSQL instance is already starting")
ErrAlreadyStopped == Err("Stop failed: PostgreSQL instance is already stopped")
ErrAlreadyStopping == Err("Stop failed: PostgreSQL instance is already stopping")
ErrStopNotInitialized == Err("Stop failed: PostgreSQL instance not initialized")
ErrNotRunning == Err("Setup failed: PostgreSQL instance is not running")
ErrDbNotRunning == Err("Database operation failed: PostgreSQL instance is not running")
ErrDbEmptyName == Err("Database operation failed: Database name cannot be empty")
ErrDbNotInitialized == Err("Database operation failed: PostgreSQL instance not initialized")
\* convert_postgresql_error(e).into()
ErrDriver == Err("Internal error: driver")
ErrStartTimeout == Err("Operation timeout: Start operation timed out")
ErrStopTimeout == Err("Operation timeout: Stop operation timed out")
ErrPort == Err("Configuration error: Port must be between 0 and 65535")
ErrUsername == Err("Configuration error: Username cannot be empty")

None == << >>
Some(x) == << x >>

VARIABLES
  \* fields of PostgresInstance
  state, async_instance, settings_port, connection_cache, startup_time,
  cleaned_up,
  \* the engine drivers constructed so far: released[d] counts the drops of d
  released,
  \* the operation called last: its name, the await it is suspended at
  \* ("idle" once it returned), its locals
  op, pc, instance, start_time,
  \* the clock
  now, nticks,
  \* the caller's view of that operation: the handle before the call, the
  \* driver calls it made, what it returned and when, whether its deadline
  \* elapsed, what its internal_stop returned with, its arguments
  pre, drv_log, result, t_ret, timed_out, stop_ret, arg,
  \* the number of calls so far, whether the handle was dropped
  ncalls, dropped,
  \* the handles constructed by PostgresInstance::new, what the last new
  \* returned, what the last get_config_hash was called on and returned
  made, new_ret, hash_ret,
  \* the start() calls that overlap on one handle: where each is, the state
  \* its guard read, its local driver, what it returned
  task,
  \* the operations that overlap on one handle, lock by lock: the name of
  \* each, what it has left to do, the locks it holds in the order it took
  \* them, the state it read
  thread

handleVars == <<state, async_instance, settings_port, connection_cache,
                startup_time, cleaned_up, released>>
opVars == <<op, pc, instance, start_time>>
clockVars == <<now, nticks>>
callVars == <<pre, drv_log, result, t_ret, timed_out, stop_ret, arg>>
hashVars == <<made, new_ret, hash_ret>>
lifecycleVars == <<handleVars, opVars, clockVars, callVars, ncalls, dropped>>
\* what the operations on one handle, issued one at a time, leave alone
sideVars == <<hashVars, task, thread>>
vars == <<lifecycleVars, sideVars>>

\* the handle and the drivers it constructed, as one value
W ==
  [state |-> state, async_instance |-> async_instance,
   settings_port |-> settings_port, connection_cache |-> connection_cache,
   startup_time |-> startup_time, cleaned_up |-> cleaned_up,
   released |-> released]

SetW(w) ==
  /\ state' = w.state
  /\ async_instance' = w.async_instance
  /\ settings_port' = w.settings_port
  /\ connection_cache' = w.connection_cache
  /\ startup_time' = w.startup_time
  /\ cleaned_up' = w.cleaned_up
  /\ released' = w.released

\* a step of an operation: the handle after it, where the operation is
\* suspended ("idle": it returned res), its local driver, and what the
\* internal_stop it ran returned with (None when it ran none to its end)
Step(w, p, res, inst, sr) ==
  [w |-> w, pc |-> p, res |-> res, instance |-> inst, stop_ret |-> sr]

Return(w, res) == Step(w, "idle", res, None, None)

\* fn set_state
set_state(w, new_state) == [w EXCEPT !.state = new_state]

\* dropping a postgresql_embedded::PostgreSQL value
Release(w, d) == [w EXCEPT !.released[d] = @ + 1]

ReleaseOpt(w, o) == IF o = None THEN w ELSE Release(w, o[1])

\* postgresql_embedded::PostgreSQL::new(self.settings.clone())
NewDriver(w) == Len(w.released) + 1

Construct(w) == [w EXCEPT !.released = Append(@, 0)]

\* instance.settings().port after a successful driver start
DriverPort(p) == IF p = 0 THEN EphemeralPort ELSE p


\* mutant of ConnectionInfo: the snapshot carries the default port
ConnectionInfo_default_port(port) ==
  [host |-> "localhost", port |-> DefaultPort, username |-> "postgres",
   password |-> "postgres", database_name |-> "postgres"]

\* ConnectionInfo::new(host, port, username, password, "postgres")
ConnectionInfo(port) ==
  [host |-> "localhost", port |-> port, username |-> "postgres",
   password |-> "postgres", database_name |-> "postgres"]

\* -------------------------------------------------------- setup and start

\* setup, from its call to instance.setup().await
setup_call(w) ==
  LET w1 == set_state(w, "Starting") IN
  Step(Construct(w1), "setup_await", Pending, Some(NewDriver(w1)), None)

\* mutant of setup_return: a failed setup empties the handle
setup_return_failure_clears(w, inst, out) ==
  IF out = "ok"
  THEN Return(set_state([ReleaseOpt(w, w.async_instance)
                           EXCEPT !.async_instance = Some(inst)], "Stopped"),
              OkUnit)
  ELSE Return(Release(set_state([ReleaseOpt(w, w.async_instance)
                                   EXCEPT !.async_instance = None],
                                "Stopped"), inst),
              ErrDriver)

\* setup, from the driver's answer to its return.  The assignment to
\* self.async_instance drops the driver held before; on the error path the
\* local instance is dropped when setup returns.
setup_return(w, inst, out) ==
  IF out = "ok"
  THEN Return(set_state([ReleaseOpt(w, w.async_instance)
                           EXCEPT !.async_instance = Some(inst)], "Stopped"),
              OkUnit)
  ELSE Return(Release(set_state(w, "Stopped"), inst), ErrDriver)

\* start, from "if self.async_instance.is_none()" to instance.start().await
start_driver(w) ==
  LET w1 == IF w.async_instance = None
            THEN [Construct(w) EXCEPT !.async_instance = Some(NewDriver(w))]
            ELSE w
  IN Step(w1, "start_await", Pending, None, None)

\* mutant of start_guard: a Starting handle passes
start_guard_starting_passes(s) ==
  CASE s = "Running" -> Some(ErrAlreadyRunning)
    [] OTHER -> None

\* mutant of start_guard: a Running handle passes
start_guard_running_passes(s) ==
  CASE s = "Starting" -> Some(ErrAlreadyStarting)
    [] OTHER -> None

\* start's guard: the error it returns with, None when it lets the call pass
start_guard(s) ==
  CASE s = "Running" -> Some(ErrAlreadyRunning)
    [] s = "Starting" -> Some(ErrAlreadyStarting)
    [] OTHER -> None

\* Option::unwrap_or
unwrap_or(o, default) == IF o = None THEN default ELSE o[1]

\* mutant of start_call: start provisions whether a driver is held or not
start_call_always_provisions(w, initialize) ==
  IF start_guard(w.state) # None THEN Return(w, start_guard(w.state)[1])
  ELSE LET should_initialize == unwrap_or(initialize, TRUE)
           w1 == set_state(w, "Starting")
       IN
       IF should_initialize THEN setup_call(w1) ELSE start_driver(w1)

\* start, from its call to its first await
start_call(w, initialize) ==
  IF start_guard(w.state) # None THEN Return(w, start_guard(w.state)[1])
  ELSE LET should_initialize == unwrap_or(initialize, TRUE)
           w1 == set_state(w, "Starting")
       IN
       IF w1.async_instance = None /\ should_initialize
       THEN setup_call(w1)
       ELSE start_driver(w1)

\* start, from the answer to its setup ("self.setup().await?") onwards
start_after_setup(w, inst, out) ==
  LET r == setup_return(w, inst, out) IN
  IF r.res.status = "err" THEN r ELSE start_driver(r.w)

\* mutant of start_return: a successful start empties the connection cache
start_return_drops_cache(w, out, elapsed) ==
  IF out = "ok"
  THEN Return(set_state([w EXCEPT !.startup_time = Some(elapsed),
                                  !.settings_port = DriverPort(@),
                                  !.connection_cache = None],
                        "Running"),
              OkUnit)
  ELSE Return(set_state(w, "Stopped"), ErrDriver)

\* mutant of start_return: a failed driver start leaves the state Starting
start_return_no_reset(w, out, elapsed) ==
  IF out = "ok"
  THEN Return(set_state([w EXCEPT !.startup_time = Some(elapsed),
                                  !.settings_port = DriverPort(@)],
                        "Running"),
              OkUnit)
  ELSE Return(w, ErrDriver)

\* start, from the driver's answer to instance.start() to its return
start_return(w, out, elapsed) ==
  IF out = "ok"
  THEN Return(set_state([w EXCEPT !.startup_time = Some(elapsed),
                                  !.settings_port = DriverPort(@)],
                        "Running"),
              OkUnit)
  ELSE Return(set_state(w, "Stopped"), ErrDriver)

\* ------------------------------------------------------- stop and cleanup

\* a return of internal_stop
stop_ret_with(w, res) ==
  Step(w, "idle", res, None, Some([state |-> w.state, res |-> res]))

\* internal_stop's guard: the result it returns with, None when it lets the
\* call pass
stop_guard(s, is_cleanup) ==
  CASE s = "Stopped" -> Some(IF is_cleanup THEN OkUnit ELSE ErrAlreadyStopped)
    [] s = "Stopping" -> Some(IF is_cleanup THEN OkUnit ELSE ErrAlreadyStopping)
    [] OTHER -> None

\* internal_stop, from its call to instance.stop().await
stop_call(w, is_cleanup) ==
  IF stop_guard(w.state, is_cleanup) # None
  THEN stop_ret_with(w, stop_guard(w.state, is_cleanup)[1])
  ELSE LET w1 == set_state(w, "Stopping") IN
       IF w1.async_instance # None
       THEN Step(w1, "stop_await", Pending, None, None)
       ELSE stop_ret_with(set_state(w1, "Stopped"),
                          IF is_cleanup THEN OkUnit ELSE ErrStopNotInitialized)

\* mutant of stop_return: a successful stop clears the startup duration
stop_return_clears_startup(w, is_cleanup, out) ==
  IF out = "ok"
  THEN stop_ret_with(set_state([w EXCEPT !.startup_time = None], "Stopped"),
                     OkUnit)
  ELSE IF ~is_cleanup THEN stop_ret_with(set_state(w, "Running"), ErrDriver)
  ELSE stop_ret_with(set_state(w, "Stopped"), OkUnit)

\* mutant of stop_return: a failed driver stop forces Stopped on every path
stop_return_always_forces(w, is_cleanup, out) ==
  IF out = "ok" THEN stop_ret_with(set_state(w, "Stopped"), OkUnit)
  ELSE stop_ret_with(set_state(w, "Stopped"),
                     IF is_cleanup THEN OkUnit ELSE ErrDriver)

\* internal_stop, from the driver's answer to its return
stop_return(w, is_cleanup, out) ==
  IF out = "ok" THEN stop_ret_with(set_state(w, "Stopped"), OkUnit)
  ELSE IF ~is_cleanup THEN stop_ret_with(set_state(w, "Running"), ErrDriver)
  ELSE stop_ret_with(set_state(w, "Stopped"), OkUnit)

\* mutant of cleanup_tail: the driver is released through a reference and
\* stays in the handle
cleanup_tail_not_taken(s) ==
  LET w1 == ReleaseOpt(s.w, s.w.async_instance)
      w2 == [w1 EXCEPT !.connection_cache = None, !.startup_time = None]
      w3 == set_state(w2, "Stopped")
  IN Step([w3 EXCEPT !.cleaned_up = TRUE], "idle", OkUnit, None, s.stop_ret)

\* mutant of cleanup_tail: the connection cache is kept
cleanup_tail_keeps_cache(s) ==
  LET w1 == [ReleaseOpt(s.w, s.w.async_instance) EXCEPT !.async_instance = None]
      w2 == [w1 EXCEPT !.startup_time = None]
      w3 == set_state(w2, "Stopped")
  IN Step([w3 EXCEPT !.cleaned_up = TRUE], "idle", OkUnit, None, s.stop_ret)

\* cleanup, from the return of its internal_stop(true) (step s) to its own
\* return; the result of internal_stop is only logged
cleanup_tail(s) ==
  LET w1 == [ReleaseOpt(s.w, s.w.async_instance) EXCEPT !.async_instance = None]
      w2 == [w1 EXCEPT !.connection_cache = None, !.startup_time = None]
      w3 == set_state(w2, "Stopped")
  IN Step([w3 EXCEPT !.cleaned_up = TRUE], "idle", OkUnit, None, s.stop_ret)

\* mutant of cleanup_call: a repeated cleanup is reported as an error
cleanup_call_repeat_fails(w) ==
  IF w.cleaned_up THEN Return(w, Err("Setup failed: already cleaned up"))
  ELSE LET s == stop_call(w, TRUE) IN
       IF s.pc = "idle" THEN cleanup_tail(s) ELSE s

\* cleanup, from its call to its first await
cleanup_call(w) ==
  IF w.cleaned_up THEN Return(w, OkUnit)
  ELSE LET s == stop_call(w, TRUE) IN
       IF s.pc = "idle" THEN cleanup_tail(s) ELSE s

\* Drop::drop, then the drop of the fields
drop(w) ==
  IF w.cleaned_up THEN ReleaseOpt(w, w.async_instance)
  ELSE set_state([ReleaseOpt(w, w.async_instance)
                    EXCEPT !.async_instance = None], "Stopped")

\* ----------------------------------------------------------- the timeouts

\* mutant of start_timed_out: the state is left as the pending start set it
start_timed_out_keeps_state(w, inst) ==
  Return(ReleaseOpt(w, inst), ErrStartTimeout)

\* start_with_timeout once the deadline elapsed: the pending start is
\* dropped, and with it the driver its setup was provisioning
start_timed_out(w, inst) ==
  Return(set_state(ReleaseOpt(w, inst), "Stopped"), ErrStartTimeout)

\* mutant of stop_timed_out: the state is forced to Stopped, as for start
stop_timed_out_forces_stopped(w) ==
  Return(set_state(w, "Stopped"), ErrStopTimeout)

\* stop_with_timeout once the deadline elapsed
stop_timed_out(w) == Return(w, ErrStopTimeout)

\* ----------------------------------------------------- the connection cache
\* mutant of get_connection_info: the state is not looked at
get_connection_info_any_state(w, t) ==
  IF /\ w.connection_cache # None
     /\ t - w.connection_cache[1].created_at < CacheValiditySecs
  THEN Return(w, OkVal(w.connection_cache[1].info))
  ELSE LET info == ConnectionInfo(w.settings_port) IN
       Return([w EXCEPT !.connection_cache =
                          Some([info |-> info, created_at |-> t])],
              OkVal(info))

\* mutant of get_connection_info: a read of a valid entry renews its
\* timestamp
get_connection_info_renews(w, t) ==
  IF w.state = "Running"
  THEN IF /\ w.connection_cache # None
          /\ t - w.connection_cache[1].created_at < CacheValiditySecs
       THEN Return([w EXCEPT !.connection_cache[1].created_at = t],
                   OkVal(w.connection_cache[1].info))
       ELSE LET info == ConnectionInfo(w.settings_port) IN
            Return([w EXCEPT !.connection_cache =
                               Some([info |-> info, created_at |-> t])],
                   OkVal(info))
  ELSE Return(w, ErrNotRunning)

\* get_connection_info called at time t
get_connection_info(w, t) ==
  IF w.state = "Running"
  THEN IF /\ w.connection_cache # None
          /\ t - w.connection_cache[1].created_at < CacheValiditySecs
       THEN Return(w, OkVal(w.connection_cache[1].info))
       ELSE LET info == ConnectionInfo(w.settings_port) IN
            Return([w EXCEPT !.connection_cache =
                               Some([info |-> info, created_at |-> t])],
                   OkVal(info))
  ELSE Return(w, ErrNotRunning)

\* mutant of clear_connection_cache: the entry is cleared on a Running
\* handle only
clear_connection_cache_when_running(w) ==
  IF w.state = "Running"
  THEN Return([w EXCEPT !.connection_cache = None], OkUnit)
  ELSE Return(w, ErrNotRunning)

clear_connection_cache(w) == Return([w EXCEPT !.connection_cache = None], OkUnit)

\* mutant of is_connection_cache_valid: an entry of age 300 s is still valid
is_connection_cache_valid_inclusive(w, t) ==
  Return(w, OkVal(/\ w.connection_cache # None
                  /\ t - w.connection_cache[1].created_at <= CacheValiditySecs))

\* is_connection_cache_valid called at time t; its bool is recorded as Ok(bool)
is_connection_cache_valid(w, t) ==
  Return(w, OkVal(/\ w.connection_cache # None
                  /\ t - w.connection_cache[1].created_at < CacheValiditySecs))

\* --------------------------------------------------------------- getters

\* get_state
get_state(w) == Return(w, OkVal(w.state))

\* mutant of is_healthy: a handle is healthy as soon as it holds a driver
is_healthy_if_driver(w) == Return(w, OkVal(w.async_instance # None))

\* is_healthy
is_healthy(w) ==
  Return(w, OkVal(IF w.state = "Running" THEN w.async_instance # None
                  ELSE FALSE))

\* get_startup_time: the Option of the duration in seconds, null for None
get_startup_time(w) == Return(w, OkVal(w.startup_time))

\* ------------------------------------------------- the database operations

\* mutant of db_guard: the name is not looked at
db_guard_any_name(s, name) ==
  CASE s # "Running" -> Some(ErrDbNotRunning)
    [] OTHER -> None

\* the guard of create_database, drop_database and database_exists: the
\* error it returns with, None when it lets the call pass
db_guard(s, name) ==
  CASE s # "Running" -> Some(ErrDbNotRunning)
    [] s = "Running" /\ name = "" -> Some(ErrDbEmptyName)
    [] OTHER -> None

\* a database operation, from its call to its await on the driver
db_call(w, name, await) ==
  IF db_guard(w.state, name) # None THEN Return(w, db_guard(w.state, name)[1])
  ELSE IF w.async_instance # None THEN Step(w, await, Pending, None, None)
  ELSE Return(w, ErrDbNotInitialized)

create_database_call(w, name) == db_call(w, name, "create_database_await")

drop_database_call(w, name) == db_call(w, name, "drop_database_await")

database_exists_call(w, name) == db_call(w, name, "database_exists_await")

\* mutant of db_return: a driver failure marks the handle Stopped
db_return_failure_stops(w, out) ==
  IF out = "ok" THEN Return(w, OkUnit)
  ELSE Return(set_state(w, "Stopped"), ErrDriver)

\* create_database and drop_database, from the driver's answer
db_return(w, out) == Return(w, IF out = "ok" THEN OkUnit ELSE ErrDriver)

\* database_exists, from the driver's answer
database_exists_return(w, out) ==
  Return(w, CASE out = "true" -> OkVal(TRUE)
              [] out = "false" -> OkVal(FALSE)
              [] OTHER -> ErrDriver)

\* ------------------------------------------------- the configuration hash

\* the bytes of the strings the settings are made of (str::as_bytes)
Bytes(s) ==
  CASE s = "localhost" -> << 108, 111, 99, 97, 108, 104, 111, 115, 116 >>
    [] s = "postgres" -> << 112, 111, 115, 116, 103, 114, 101, 115 >>
    [] s = "pg" -> << 112, 103 >>
    [] s = "" -> << >>

\* what postgresql_embedded::Settings::default() may give: the driver's
\* values, which this source does not fix
DriverDefaults ==
  {[host |-> "localhost", port |-> 0, username |-> "postgres",
    password |-> pw, temporary |-> TRUE] : pw \in {"postgres", "pg"}}

\* the PostgresSettings that new is called with; the fields left out here
\* (version, database_name, data_dir, installation_dir, timeout,
\* setup_timeout) go the way of persistent: into fields of the driver's
\* settings that the hash does not read
SettingsInputs ==
  [host : {None, Some("pg")},
   port : {Some(0), Some(DefaultPort), Some(MaxPort + 1)},
   username : {Some("postgres"), Some("")},
   password : {None, Some("postgres")},
   persistent : {None, Some(TRUE)}]

\* PostgresSettings::validate: the error it returns with, None when the
\* settings pass
validate(s) ==
  IF s.port # None /\ s.port[1] > MaxPort THEN Some(ErrPort)
  ELSE IF s.username # None /\ s.username[1] = "" THEN Some(ErrUsername)
  ELSE None

\* PostgresSettings::to_embedded_settings once validate passed, d being
\* Settings::default()
to_embedded_settings(s, d) ==
  [host |-> unwrap_or(s.host, d.host),
   port |-> IF s.port = None THEN d.port ELSE s.port[1] % (MaxPort + 1),
   username |-> unwrap_or(s.username, d.username),
   password |-> unwrap_or(s.password, d.password),
   temporary |-> IF s.persistent = None THEN d.temporary
                 ELSE ~s.persistent[1]]

\* u16::hash: Hasher::write_u16, the two bytes in the order of the target
write_u16(h, n) == h \o << n % 256, n \div 256 >>

\* bool::hash: Hasher::write_u8
write_bool(h, b) == h \o << IF b THEN 1 ELSE 0 >>

\* String::hash: Hasher::write_str, the bytes and the terminator 0xff
write_str(h, str) == h \o Bytes(str) \o << 255 >>

\* the width of the hash in the model (DefaultHasher's is 64 bits)
HashModulus == 2^16

\* DefaultHasher::new() ... finish(): std's SipHash with fixed keys, some
\* function of the bytes written; here a fold of them
RECURSIVE finish(_)
finish(h) ==
  IF h = << >> THEN 0
  ELSE (finish(SubSeq(h, 1, Len(h) - 1)) * 31 + h[Len(h)] + 7) % HashModulus

HexDigits ==
  << "0", "1", "2", "3", "4", "5", "6", "7", "8", "9",
     "a", "b", "c", "d", "e", "f" >>

\* format!("{:x}", n): the digits of n to the base 16, no leading zero
RECURSIVE LowerHex(_)
LowerHex(n) ==
  IF n < 16 THEN << HexDigits[n + 1] >>
  ELSE Append(LowerHex(n \div 16), HexDigits[(n % 16) + 1])

\* mutant of generate_config_hash: the temporary flag is hashed too
generate_config_hash_with_temporary(settings) ==
  LowerHex(finish(write_bool(write_str(write_str(write_str(write_u16(<< >>,
    settings.port), settings.username), settings.password), settings.host),
    settings.temporary)))

\* fn generate_config_hash
generate_config_hash(settings) ==
  LowerHex(finish(write_str(write_str(write_str(write_u16(<< >>,
    settings.port), settings.username), settings.password), settings.host)))

\* ------------------------------------------- operations run to their end

\* the i-th answer of the driver, "none" past the last one
Answer(outs, i) == IF i <= Len(outs) THEN outs[i] ELSE "none"

\* start(initialize) run from handle w to its return, the driver answering
\* outs to its calls in turn, the start taking elapsed
run_start(w, initialize, outs, elapsed) ==
  LET r0 == start_call(w, initialize) IN
  IF r0.pc = "idle" THEN r0
  ELSE IF r0.pc = "setup_await"
  THEN LET r1 == start_after_setup(r0.w, r0.instance[1], Answer(outs, 1)) IN
       IF r1.pc = "idle" THEN r1
       ELSE start_return(r1.w, Answer(outs, 2), elapsed)
  ELSE start_return(r0.w, Answer(outs, 1), elapsed)

\* stop() run from handle w to its return
run_stop(w, outs) ==
  LET r0 == stop_call(w, FALSE) IN
  IF r0.pc = "idle" THEN r0 ELSE stop_return(r0.w, FALSE, Answer(outs, 1))

\* ================================================================ actions

\* the tasks that may call start() on the one handle
Tasks == {1, 2}

\* a task that has not called start()
TaskIdle == [pc |-> "idle", seen |-> None, instance |-> None, res |-> Pending,
             calls |-> 0]

\* a thread that runs no operation
ThreadIdle == [op |-> "idle", todo |-> << >>, held |-> << >>,
               seen |-> "Stopped"]

\* no settings were handed to new yet and no calls overlap
SideInit ==
  /\ made = << >>
  /\ new_ret = Pending
  /\ hash_ret = None
  /\ task = [t \in Tasks |-> TaskIdle]
  /\ thread = [t \in Tasks |-> ThreadIdle]

\* PostgresInstance::new
Init ==
  /\ state = "Stopped"
  /\ async_instance = None
  /\ settings_port \in ConfigPorts
  /\ connection_cache = None
  /\ startup_time = None
  /\ cleaned_up = FALSE
  /\ released = << >>
  /\ op = "new"
  /\ pc = "idle"
  /\ instance = None
  /\ start_time = 0
  /\ now = 0
  /\ nticks = 0
  /\ pre = W
  /\ drv_log = << >>
  /\ result = OkUnit
  /\ t_ret = 0
  /\ timed_out = FALSE
  /\ stop_ret = None
  /\ arg = << >>
  /\ ncalls = 0
  /\ dropped = FALSE
  /\ SideInit

\* the driver call an operation suspended at p has just made
Invoked(log, p) ==
  IF p = "idle" THEN log ELSE Append(log, [call |-> p, out |-> "pending"])

\* the pending driver call answered out
Answered(log, out) == [log EXCEPT ![Len(log)].out = out]

\* operation name is called on the idle handle and runs step r
Call(name, r) ==
  /\ pc = "idle"
  /\ ~dropped
  /\ ncalls < MaxCalls
  /\ op' = name
  /\ pre' = W
  /\ ncalls' = ncalls + 1
  /\ timed_out' = FALSE
  /\ SetW(r.w)
  /\ pc' = r.pc
  /\ instance' = r.instance
  /\ result' = r.res
  /\ drv_log' = Invoked(<< >>, r.pc)
  /\ t_ret' = now
  /\ stop_ret' = r.stop_ret
  /\ UNCHANGED <<clockVars, dropped, sideVars>>

\* the pending driver call answers out and the operation runs step r
Resume(out, r) ==
  /\ SetW(r.w)
  /\ pc' = r.pc
  /\ instance' = r.instance
  /\ result' = r.res
  /\ drv_log' = Invoked(Answered(drv_log, out), r.pc)
  /\ t_ret' = now
  /\ stop_ret' = r.stop_ret
  /\ UNCHANGED <<op, start_time, pre, timed_out, arg, ncalls, dropped,
                 clockVars, sideVars>>

\* a call without arguments that is no start
NoArg == arg' = << >> /\ UNCHANGED start_time

Setup == Call("setup", setup_call(W)) /\ NoArg

Start(initialize) ==
  /\ Call("start", start_call(W, initialize))
  /\ start_time' = now
  /\ arg' = << initialize >>

Stop == Call("stop", stop_call(W, FALSE)) /\ NoArg

\* mutant of StartWithTimeout: the wrapped start is told not to initialize
StartWithTimeout_no_initialize ==
  /\ Call("start_with_timeout", start_call(W, Some(FALSE)))
  /\ start_time' = now
  /\ arg' = << >>

\* tokio::time::timeout(d, self.start(Some(true))): the first poll
StartWithTimeout ==
  /\ Call("start_with_timeout", start_call(W, Some(TRUE)))
  /\ start_time' = now
  /\ arg' = << >>

\* tokio::time::timeout(d, self.stop()): the first poll
StopWithTimeout ==
  Call("stop_with_timeout", stop_call(W, FALSE)) /\ NoArg

Cleanup == Call("cleanup", cleanup_call(W)) /\ NoArg

GetConnectionInfo ==
  Call("get_connection_info", get_connection_info(W, now)) /\ NoArg

ClearConnectionCache ==
  Call("clear_connection_cache", clear_connection_cache(W)) /\ NoArg

IsConnectionCacheValid ==
  Call("is_connection_cache_valid", is_connection_cache_valid(W, now)) /\ NoArg

GetState == Call("get_state", get_state(W)) /\ NoArg

IsHealthy == Call("is_healthy", is_healthy(W)) /\ NoArg

GetStartupTime == Call("get_startup_time", get_startup_time(W)) /\ NoArg

\* a call with a database name
NameArg(name) == arg' = << name >> /\ UNCHANGED start_time

CreateDatabase(name) ==
  Call("create_database", create_database_call(W, name)) /\ NameArg(name)

DropDatabase(name) ==
  Call("drop_database", drop_database_call(W, name)) /\ NameArg(name)

DatabaseExists(name) ==
  Call("database_exists", database_exists_call(W, name)) /\ NameArg(name)

IsStartOp == op \in {"start", "start_with_timeout"}

\* instance.setup().await answers
SetupAnswers(out) ==
  /\ pc = "setup_await"
  /\ Resume(out, IF IsStartOp
                 THEN start_after_setup(W, instance[1], out)
                 ELSE setup_return(W, instance[1], out))

\* instance.start().await answers
StartAnswers(out) ==
  /\ pc = "start_await"
  /\ Resume(out, start_return(W, out, now - start_time))

\* instance.stop().await answers
StopAnswers(out) ==
  /\ pc = "stop_await"
  /\ Resume(out, IF op = "cleanup"
                 THEN cleanup_tail(stop_return(W, TRUE, out))
                 ELSE stop_return(W, FALSE, out))

\* instance.create_database(&name).await / instance.drop_database(&name)
\* .await answers
DbAnswers(out) ==
  /\ pc \in {"create_database_await", "drop_database_await"}
  /\ Resume(out, db_return(W, out))

\* instance.database_exists(&name).await answers
ExistsAnswers(out) ==
  /\ pc = "database_exists_await"
  /\ Resume(out, database_exists_return(W, out))

\* the deadline of start_with_timeout / stop_with_timeout elapses while the
\* wrapped operation is suspended
DeadlineElapses ==
  /\ pc # "idle"
  /\ op \in {"start_with_timeout", "stop_with_timeout"}
  /\ LET r == IF op = "start_with_timeout"
              THEN start_timed_out(W, instance)
              ELSE stop_timed_out(W)
     IN /\ SetW(r.w)
        /\ result' = r.res
  /\ pc' = "idle"
  /\ instance' = None
  /\ timed_out' = TRUE
  /\ t_ret' = now
  /\ UNCHANGED <<op, start_time, pre, drv_log, stop_ret, arg, ncalls,
                 dropped, clockVars, sideVars>>

\* the handle goes out of scope
Drop ==
  /\ pc = "idle"
  /\ ~dropped
  /\ SetW(drop(W))
  /\ dropped' = TRUE
  /\ UNCHANGED <<opVars, clockVars, callVars, ncalls, sideVars>>

\* The clock is read at three places only: Instant::now() when start is
\* called and start_time.elapsed() when its driver start succeeded, and
\* created_at.elapsed() / Instant::now() when the connection cache is read
\* or filled; each use is a difference of two readings.  Time that passes
\* elsewhere cannot be told from time passing at the next of these places.
TimeMatters ==
  \/ pc \in {"setup_await", "start_await"} /\ IsStartOp
  \/ pc = "idle" /\ connection_cache # None

\* time passes
Tick(d) ==
  /\ ~dropped
  /\ nticks < MaxTicks
  /\ TimeMatters
  /\ now' = now + d
  /\ nticks' = nticks + 1
  /\ UNCHANGED <<handleVars, opVars, callVars, ncalls, dropped, sideVars>>

Next ==
  \/ Setup
  \/ \E initialize \in {None, Some(TRUE), Some(FALSE)} : Start(initialize)
  \/ Stop
  \/ StartWithTimeout
  \/ StopWithTimeout
  \/ Cleanup
  \/ GetConnectionInfo
  \/ ClearConnectionCache
  \/ IsConnectionCacheValid
  \/ GetState
  \/ IsHealthy
  \/ GetStartupTime
  \/ \E name \in DatabaseNames : CreateDatabase(name)
  \/ \E name \in DatabaseNames : DropDatabase(name)
  \/ \E name \in DatabaseNames : DatabaseExists(name)
  \/ \E out \in {"ok", "err"} : DbAnswers(out)
  \/ \E out \in {"true", "false", "err"} : ExistsAnswers(out)
  \/ \E out \in {"ok", "err"} : SetupAnswers(out)
  \/ \E out \in {"ok", "err"} : StartAnswers(out)
  \/ \E out \in {"ok", "err"} : StopAnswers(out)
  \/ DeadlineElapses
  \/ Drop
  \/ \E d \in TickSteps : Tick(d)

Spec == Init /\ [][Next]_vars

TypeOK ==
  /\ state \in InstanceState
  /\ pc \in {"idle", "setup_await", "start_await", "stop_await",
            "create_database_await", "drop_database_await",
            "database_exists_await"}
  /\ Len(async_instance) <= 1
  /\ cleaned_up \in BOOLEAN

\* ------------------------------------------- the cache of a Running handle

\* the fields PostgresInstance::new gives a handle for the port
new(port) ==
  [state |-> "Stopped", async_instance |-> None, settings_port |-> port,
   connection_cache |-> None, startup_time |-> None, cleaned_up |-> FALSE,
   released |-> << >>]

\* new(); start() has provisioned and started, in no time
CacheInit ==
  \E port \in ConfigPorts :
    LET r == run_start(new(port), None, << "ok", "ok" >>, 0) IN
    /\ state = r.w.state
    /\ async_instance = r.w.async_instance
    /\ settings_port = r.w.settings_port
    /\ connection_cache = r.w.connection_cache
    /\ startup_time = r.w.startup_time
    /\ cleaned_up = r.w.cleaned_up
    /\ released = r.w.released
    /\ op = "start"
    /\ pc = r.pc
    /\ instance = r.instance
    /\ start_time = 0
    /\ now = 0
    /\ nticks = 0
    /\ pre = new(port)
    /\ drv_log = << [call |-> "setup_await", out |-> "ok"],
                    [call |-> "start_await", out |-> "ok"] >>
    /\ result = r.res
    /\ t_ret = 0
    /\ timed_out = FALSE
    /\ stop_ret = r.stop_ret
    /\ arg = << None >>
    /\ ncalls = 1
    /\ dropped = FALSE
    /\ SideInit

\* time passes on the Running handle
CacheTick(d) ==
  /\ nticks < MaxCacheTicks
  /\ TimeMatters
  /\ now' = now + d
  /\ nticks' = nticks + 1
  /\ UNCHANGED <<handleVars, opVars, callVars, ncalls, dropped, sideVars>>

\* the handle stays Running: only the cache is read, filled and cleared
CacheNext ==
  \/ GetConnectionInfo
  \/ IsConnectionCacheValid
  \/ ClearConnectionCache
  \/ \E d \in TickSteps : CacheTick(d)

CacheSpec == CacheInit /\ [][CacheNext]_vars

\* ------------------------------------------------ handles and their hash

\* PostgresInstance::new(Some(s)), Settings::default() giving d
New(s, d) ==
  /\ Len(made) < MaxHandles
  /\ IF validate(s) # None
     THEN /\ new_ret' = validate(s)[1]
          /\ UNCHANGED made
     ELSE LET settings == to_embedded_settings(s, d) IN
          /\ made' = Append(made, [input |-> s, constructed |-> settings,
                                   settings |-> settings,
                                   config_hash |->
                                     generate_config_hash(settings)])
          /\ new_ret' = OkUnit
  /\ UNCHANGED <<lifecycleVars, hash_ret, task, thread>>

\* mutant of started: the hash is computed again from the new settings
started_rehashes(h) ==
  [h EXCEPT !.settings.port = DriverPort(@),
            !.config_hash =
              generate_config_hash([h.settings EXCEPT !.port = DriverPort(@)])]

\* what a start() that succeeded leaves of a handle's settings and hash:
\* self.settings.port = instance.settings().port
started(h) == [h EXCEPT !.settings.port = DriverPort(@)]

\* a start() on the i-th handle succeeded
StartSucceeded(i) ==
  /\ i <= Len(made)
  /\ made' = [made EXCEPT ![i] = started(@)]
  /\ UNCHANGED <<lifecycleVars, new_ret, hash_ret, task, thread>>

\* get_config_hash on the i-th handle
GetConfigHash(i) ==
  /\ i <= Len(made)
  /\ hash_ret' = Some([handle |-> i, hash |-> made[i].config_hash])
  /\ UNCHANGED <<lifecycleVars, made, new_ret, task, thread>>

HashNext ==
  \/ \E s \in SettingsInputs, d \in DriverDefaults : New(s, d)
  \/ \E i \in 1..MaxHandles : GetConfigHash(i)
  \/ \E i \in 1..MaxHandles : StartSucceeded(i)

HashSpec == Init /\ [][HashNext]_vars

\* ------------------------------------------------ setup, start and stop

\* setup(), start() and stop() only, issued one at a time
LifecycleNext ==
  \/ Setup
  \/ \E initialize \in {None, Some(TRUE), Some(FALSE)} : Start(initialize)
  \/ Stop
  \/ \E out \in {"ok", "err"} : SetupAnswers(out)
  \/ \E out \in {"ok", "err"} : StartAnswers(out)
  \/ \E out \in {"ok", "err"} : StopAnswers(out)

LifecycleSpec == Init /\ [][LifecycleNext]_vars

\* ------------------------------------------------- overlapping start()s
\* start() is a pub async unsafe fn on &mut self: nothing keeps the caller
\* from calling it again while a call is pending.  Each call then runs as a
\* task of its own, and the steps below are the accesses of one task to the
\* handle, one at a time: the recorded state is read and written under its
\* mutex; async_instance, settings.port and startup_time are accessed in
\* the order of the code, each access in one piece.

\* task t takes a step that leaves the handle w and the task tk
TaskStep(t, w, tk) ==
  /\ SetW(w)
  /\ task' = [task EXCEPT ![t] = tk]
  /\ UNCHANGED <<opVars, clockVars, callVars, ncalls, dropped, hashVars,
                 thread>>

\* a task at position p
At(t, p) == task[t].pc = p

\* the task at position p, the rest as it was
Goto(t, p) == [task[t] EXCEPT !.pc = p]

\* the task returned res
Done(t, res) == [task[t] EXCEPT !.pc = "idle", !.res = res, !.instance = None]

\* start() is called: the state is read and matched
TaskStart(t) ==
  /\ At(t, "idle")
  /\ task[t].calls < MaxStarts
  /\ LET tk == [task[t] EXCEPT !.seen = Some(state), !.calls = @ + 1,
                               !.res = Pending] IN
     TaskStep(t, W,
              IF start_guard(state) # None
              THEN [tk EXCEPT !.res = start_guard(state)[1]]
              ELSE [tk EXCEPT !.pc = "set_starting"])

\* self.set_state(InstanceState::Starting) of start
TaskSetStarting(t) ==
  /\ At(t, "set_starting")
  /\ TaskStep(t, set_state(W, "Starting"), Goto(t, "check_instance"))

\* if self.async_instance.is_none() && should_initialize
TaskCheckInstance(t) ==
  /\ At(t, "check_instance")
  /\ TaskStep(t, W, Goto(t, IF async_instance = None THEN "setup"
                            ELSE "start"))

\* setup, up to instance.setup().await
TaskSetup(t) ==
  /\ At(t, "setup")
  /\ LET r == setup_call(W) IN
     TaskStep(t, r.w, [task[t] EXCEPT !.pc = r.pc, !.instance = r.instance])

\* instance.setup().await answers: on an error setup sets Stopped and
\* start returns the error
TaskSetupAnswers(t, out) ==
  /\ At(t, "setup_await")
  /\ IF out = "ok" THEN TaskStep(t, W, Goto(t, "setup_store"))
     ELSE TaskStep(t, Release(set_state(W, "Stopped"), task[t].instance[1]),
                   Done(t, ErrDriver))

\* self.async_instance = Some(instance)
TaskSetupStore(t) ==
  /\ At(t, "setup_store")
  /\ TaskStep(t, [ReleaseOpt(W, async_instance)
                    EXCEPT !.async_instance = task[t].instance],
              [task[t] EXCEPT !.pc = "setup_set_stopped", !.instance = None])

\* self.set_state(InstanceState::Stopped) of setup
TaskSetupSetStopped(t) ==
  /\ At(t, "setup_set_stopped")
  /\ TaskStep(t, set_state(W, "Stopped"), Goto(t, "start"))

\* from "if self.async_instance.is_none()" to instance.start().await, on
\* the driver the handle holds at that time
TaskStartDriver(t) ==
  /\ At(t, "start")
  /\ LET r == start_driver(W) IN
     TaskStep(t, r.w, [task[t] EXCEPT !.pc = r.pc,
                                      !.instance = r.w.async_instance])

\* instance.start().await answers: on an error start sets Stopped
TaskStartAnswers(t, out) ==
  /\ At(t, "start_await")
  /\ IF out = "ok" THEN TaskStep(t, W, Goto(t, "start_record"))
     ELSE TaskStep(t, set_state(W, "Stopped"), Done(t, ErrDriver))

\* the startup duration and the driver's port are recorded
TaskStartRecord(t) ==
  /\ At(t, "start_record")
  /\ TaskStep(t, [W EXCEPT !.startup_time = Some(0),
                           !.settings_port = DriverPort(@)],
              Goto(t, "set_running"))

\* self.set_state(InstanceState::Running)
TaskSetRunning(t) ==
  /\ At(t, "set_running")
  /\ TaskStep(t, set_state(W, "Running"), Done(t, OkUnit))

ConcNext ==
  \E t \in Tasks :
    \/ TaskStart(t)
    \/ TaskSetStarting(t)
    \/ TaskCheckInstance(t)
    \/ TaskSetup(t)
    \/ \E out \in {"ok", "err"} : TaskSetupAnswers(t, out)
    \/ TaskSetupStore(t)
    \/ TaskSetupSetStopped(t)
    \/ TaskStartDriver(t)
    \/ \E out \in {"ok", "err"} : TaskStartAnswers(t, out)
    \/ TaskStartRecord(t)
    \/ TaskSetRunning(t)

ConcSpec == Init /\ [][ConcNext]_vars

\* ------------------------------------------------------------- the locks
\* The handle has three std::sync::Mutex fields: state, connection_cache and
\* startup_time.  lock() blocks until the mutex is free, the guard it returns
\* releases the mutex where its scope ends.  An operation is written as the
\* list of its lock acquisitions and releases, its accesses to state,
\* async_instance and cleaned_up, its waits on the driver and its branches,
\* in the order of the source; a thread runs the list from the front.
\* What is stored under the cache and startup-time locks and the port a
\* start adopts decide no branch and no lock, and are left out of the lists.

Locks == {"state", "cache", "startup_time"}

Ins(k, l, set, j) == [k |-> k, l |-> l, s |-> set, j |-> j]

\* mutex.lock() and the end of the guard's scope
Acq(l) == Ins("acq", l, {}, 0)
Rel(l) == Ins("rel", l, {}, 0)
\* *state is read / written through the guard
Read == Ins("read", "", {}, 0)
Write(new_state) == Ins("write", "", {new_state}, 0)
\* the next j steps are skipped: always, when the state read is in set,
\* when the handle holds a driver, when cleanup has not run
Skip(j) == Ins("skip", "", {}, j)
SkipIfSeen(set, j) == Ins("skip_if_seen", "", set, j)
SkipIfSome(j) == Ins("skip_if_some", "", {}, j)
SkipUnlessCleanedUp(j) == Ins("skip_unless_cleaned_up", "", {}, j)
\* self.async_instance = Some(..), self.async_instance.take(),
\* self.cleaned_up = true
Store == Ins("store", "", {}, 0)
Take == Ins("take", "", {}, 0)
SetCleanedUp == Ins("set_cleaned_up", "", {}, 0)
\* a call of the driver is awaited; when it answers an error the next j
\* steps are skipped
Await(j) == Ins("await", "", {}, j)
\* return
Ret == Ins("ret", "", {}, 0)

get_state_steps == << Acq("state"), Read, Rel("state") >>

set_state_steps(new_state) ==
  << Acq("state"), Write(new_state), Rel("state") >>

\* the state guard lives to the return; the cache guard is taken inside the
\* Running arm and ends before it
get_connection_info_steps ==
  << Acq("state"), Read, SkipIfSeen({"Running"}, 2),
     Rel("state"), Ret,
     Acq("cache"), Rel("cache"), Rel("state") >>

get_startup_time_steps == << Acq("startup_time"), Rel("startup_time") >>

\* mutant of clear_connection_cache_steps: the state is read under the
\* cache lock
clear_connection_cache_steps_reads_state ==
  << Acq("cache"), Acq("state"), Read, Rel("state"), Rel("cache") >>

clear_connection_cache_steps == << Acq("cache"), Rel("cache") >>

is_connection_cache_valid_steps == << Acq("cache"), Rel("cache") >>

setup_steps ==
  LET failed == set_state_steps("Stopped") \o << Ret >>
      done == << Store >> \o set_state_steps("Stopped")
                \o << Skip(Len(failed)) >>
  IN set_state_steps("Starting") \o << Await(Len(done)) >> \o done \o failed

start_steps(should_initialize) ==
  LET failed == set_state_steps("Stopped") \o << Ret >>
      done == << Acq("startup_time"), Rel("startup_time") >>
                \o set_state_steps("Running") \o << Ret >>
      no_instance == set_state_steps("Stopped") \o << Ret >>
  IN get_state_steps
       \o << SkipIfSeen({"Stopped", "Stopping"}, 1), Ret >>
       \o set_state_steps("Starting")
       \o (IF should_initialize
           THEN << SkipIfSome(Len(setup_steps)) >> \o setup_steps
           ELSE << >>)
       \o << SkipIfSome(1), Store >>
       \o << SkipIfSome(Len(no_instance)) >> \o no_instance
       \o << Await(Len(done)) >> \o done \o failed

internal_stop_steps(is_cleanup) ==
  LET failed == set_state_steps(IF is_cleanup THEN "Stopped" ELSE "Running")
      done == set_state_steps("Stopped") \o << Skip(Len(failed)) >>
      stopping == << Await(Len(done)) >> \o done \o failed
      no_instance == set_state_steps("Stopped") \o << Skip(Len(stopping)) >>
      rest == set_state_steps("Stopping")
                \o << SkipIfSome(Len(no_instance)) >> \o no_instance
                \o stopping
  IN get_state_steps
       \o << SkipIfSeen({"Stopped", "Stopping"}, Len(rest)) >> \o rest

stop_steps == internal_stop_steps(FALSE)

cleanup_steps ==
  << SkipUnlessCleanedUp(1), Ret >>
    \o internal_stop_steps(TRUE)
    \o << Take, Acq("cache"), Rel("cache"),
          Acq("startup_time"), Rel("startup_time") >>
    \o set_state_steps("Stopped")
    \o << SetCleanedUp >>

\* the operations threads call, the ones wrapped in tokio::time::timeout,
\* and what the wrapper does when the deadline elapses
LockOps == {"get_state", "get_connection_info", "get_startup_time",
            "clear_connection_cache", "is_connection_cache_valid",
            "setup", "start", "stop", "start_with_timeout",
            "stop_with_timeout", "cleanup"}

TimedOps == {"start_with_timeout", "stop_with_timeout"}

StepsOf(name) ==
  CASE name = "get_state" -> get_state_steps
    [] name = "get_connection_info" -> get_connection_info_steps
    [] name = "get_startup_time" -> get_startup_time_steps
    [] name = "clear_connection_cache" -> clear_connection_cache_steps
    [] name = "is_connection_cache_valid" -> is_connection_cache_valid_steps
    [] name = "setup" -> setup_steps
    [] name = "start" -> start_steps(FALSE)
    [] name = "stop" -> stop_steps
    [] name = "start_with_timeout" -> start_steps(TRUE)
    [] name = "stop_with_timeout" -> stop_steps
    [] name = "cleanup" -> cleanup_steps

ElapsedSteps(name) ==
  IF name = "start_with_timeout" THEN set_state_steps("Stopped") ELSE << >>

\* the thread that holds lock l, if any
Holders(l) == {u \in Tasks : \E i \in 1..Len(thread[u].held) :
                               thread[u].held[i] = l}

Next1(t) == Head(thread[t].todo)

Doing(t, k) == thread[t].todo # << >> /\ Next1(t).k = k

\* the thread after n more steps of its list were left out; it returns at
\* the end of the list
Rest(tk, n) ==
  LET todo == SubSeq(tk.todo, n + 2, Len(tk.todo)) IN
  IF todo = << >> THEN [ThreadIdle EXCEPT !.held = tk.held]
  ELSE [tk EXCEPT !.todo = todo]

Without(held, l) == SelectSeq(held, LAMBDA x : x # l)

ThreadStep(t, w, tk) ==
  /\ SetW(w)
  /\ thread' = [thread EXCEPT ![t] = tk]
  /\ UNCHANGED <<opVars, clockVars, callVars, ncalls, dropped, hashVars,
                 task>>

\* a thread calls an operation
ThreadCall(t, name) ==
  /\ thread[t].op = "idle"
  /\ ThreadStep(t, W, [ThreadIdle EXCEPT !.op = name, !.todo = StepsOf(name)])

\* start(None), which provisions as start_with_timeout does
ThreadStartDefault(t) ==
  /\ thread[t].op = "idle"
  /\ ThreadStep(t, W, [ThreadIdle EXCEPT !.op = "start",
                                         !.todo = start_steps(TRUE)])

\* lock() returns once no thread holds the mutex
ThreadAcquire(t) ==
  /\ Doing(t, "acq")
  /\ Holders(Next1(t).l) = {}
  /\ ThreadStep(t, W, Rest([thread[t] EXCEPT
                              !.held = Append(@, Next1(t).l)], 0))

\* a guard goes out of scope
ThreadRelease(t) ==
  /\ Doing(t, "rel")
  /\ ThreadStep(t, W, Rest([thread[t] EXCEPT
                              !.held = Without(@, Next1(t).l)], 0))

\* an access to the handle or a branch
ThreadAccess(t) ==
  /\ thread[t].todo # << >>
  /\ LET tk == thread[t]
         i == Next1(t)
     IN CASE i.k = "read" ->
               ThreadStep(t, W, Rest([tk EXCEPT !.seen = state], 0))
          [] i.k = "write" ->
               ThreadStep(t, set_state(W, CHOOSE x \in i.s : TRUE),
                          Rest(tk, 0))
          [] i.k = "store" ->
               ThreadStep(t, [W EXCEPT !.async_instance = Some(1)],
                          Rest(tk, 0))
          [] i.k = "take" ->
               ThreadStep(t, [W EXCEPT !.async_instance = None], Rest(tk, 0))
          [] i.k = "set_cleaned_up" ->
               ThreadStep(t, [W EXCEPT !.cleaned_up = TRUE], Rest(tk, 0))
          [] i.k = "skip" -> ThreadStep(t, W, Rest(tk, i.j))
          [] i.k = "skip_if_seen" ->
               ThreadStep(t, W, Rest(tk, IF tk.seen \in i.s THEN i.j ELSE 0))
          [] i.k = "skip_if_some" ->
               ThreadStep(t, W, Rest(tk, IF async_instance # None THEN i.j
                                         ELSE 0))
          [] i.k = "skip_unless_cleaned_up" ->
               ThreadStep(t, W, Rest(tk, IF cleaned_up THEN 0 ELSE i.j))
          [] i.k = "ret" ->
               ThreadStep(t, W, [ThreadIdle EXCEPT !.held = tk.held])
          [] OTHER -> FALSE

\* the awaited driver call answers
ThreadAnswers(t, out) ==
  /\ Doing(t, "await")
  /\ ThreadStep(t, W, Rest(thread[t], IF out = "ok" THEN 0 ELSE Next1(t).j))

\* the deadline of a wrapped operation elapses while it waits: the pending
\* future is dropped, and with it every guard it holds
ThreadDeadline(t) ==
  /\ Doing(t, "await")
  /\ thread[t].op \in TimedOps
  /\ LET todo == ElapsedSteps(thread[t].op) IN
     ThreadStep(t, W,
                IF todo = << >> THEN ThreadIdle
                ELSE [thread[t] EXCEPT !.todo = todo, !.held = << >>,
                                       !.op = "timed_out"])

LockNext ==
  \E t \in Tasks :
    \/ \E name \in LockOps : ThreadCall(t, name)
    \/ ThreadStartDefault(t)
    \/ ThreadAcquire(t)
    \/ ThreadRelease(t)
    \/ ThreadAccess(t)
    \/ \E out \in {"ok", "err"} : ThreadAnswers(t, out)
    \/ ThreadDeadline(t)

\* PostgresInstance::new with the default port
LockInit == Init /\ settings_port = DefaultPort

LockSpec == LockInit /\ [][LockNext]_vars

\* ================================================================= claims

\* the last operation has returned and the handle is still alive
Returned(name) == op = name /\ pc = "idle" /\ ~dropped

\* the answers the driver gave to the calls of the last operation
Outs == [i \in 1..Len(drv_log) |-> drv_log[i].out]

AllOk == \A i \in 1..Len(drv_log) : drv_log[i].out = "ok"

\* C1: the recorded state is always one of the four values, and a start()
\* called in state Running or Starting, or a stop() called in state Stopped
\* or Stopping, returns the guard's error, leaves the recorded state as it
\* was and makes no driver call.
C1_IllegalCallRejected ==
  /\ state \in InstanceState
  /\ (Returned("start") /\ pre.state \in {"Running", "Starting"})
       => /\ result = (IF pre.state = "Running" THEN ErrAlreadyRunning
                       ELSE ErrAlreadyStarting)
          /\ state = pre.state
          /\ drv_log = << >>
  /\ (Returned("stop") /\ pre.state \in {"Stopped", "Stopping"})
       => /\ result = (IF pre.state = "Stopped" THEN ErrAlreadyStopped
                       ELSE ErrAlreadyStopping)
          /\ state = pre.state
          /\ drv_log = << >>
  /\ (op \in {"start", "stop"} /\ pc # "idle")
       => \/ op = "start" /\ pre.state \in {"Stopped", "Stopping"}
          \/ op = "stop" /\ pre.state \in {"Running", "Starting"}

\* C1 witness: start() was called on a Running handle
C1_Witness == Returned("start") /\ pre.state = "Running"

\* C1 witness of the other guard: stop() was called on a Stopping handle
C1_WitnessStop == Returned("stop") /\ pre.state = "Stopping"

\* C2: a cleanup() called right after a cleanup() returns success at once
\* and changes nothing: not the state, the driver reference, the cache, the
\* startup duration or the flag, and no driver is called or released.
C2_CleanupIdempotent ==
  [][(Returned("cleanup") /\ op' = "cleanup" /\ ncalls' = ncalls + 1)
       => /\ W' = W
          /\ pc' = "idle"
          /\ result' = OkUnit
          /\ drv_log' = << >>]_vars

\* C2 witness: the second of two calls, both cleanup(), has returned
C2_Witness == Returned("cleanup") /\ ncalls = 2 /\ pre.cleaned_up

\* C3 as claimed: after any cleanup() returned the state is Stopped, no
\* driver is held, the cache is empty and the startup duration is cleared.
C3_AfterCleanupReleased ==
  Returned("cleanup")
    => /\ state = "Stopped"
       /\ async_instance = None
       /\ connection_cache = None
       /\ startup_time = None

\* C4: no driver is ever released twice, and once the handle was dropped
\* every driver it constructed has been released exactly once; while the
\* handle lives, the unreleased drivers are the one it holds and the one a
\* pending setup is provisioning.
C4_ReleasedExactlyOnce ==
  \A d \in 1..Len(released) :
    /\ released[d] <= 1
    /\ dropped => released[d] = 1
    /\ ~dropped => (released[d] = 0 <=> (async_instance = Some(d) \/ instance = Some(d)))

\* C4 witness: a handle that constructed two drivers and was cleaned up
\* has been dropped
C4_Witness == dropped /\ cleaned_up /\ Len(released) >= 2

\* C4 witness, no cleanup before the drop
C4_WitnessNoCleanup == dropped /\ ~cleaned_up /\ Len(released) >= 2

\* C5: a start_with_timeout whose deadline elapsed has returned the timeout
\* error and left the recorded state Stopped.
C5_StartTimeoutStopped ==
  (op = "start_with_timeout" /\ timed_out /\ ~dropped)
    => /\ pc = "idle"
       /\ result = ErrStartTimeout
       /\ state = "Stopped"

\* C5 witness: the deadline elapsed while the driver start was pending
C5_Witness ==
  /\ Returned("start_with_timeout") /\ timed_out
  /\ drv_log[Len(drv_log)] = [call |-> "start_await", out |-> "pending"]

\* C5 witness: the deadline elapsed while provisioning was pending
C5_WitnessSetup ==
  /\ Returned("start_with_timeout") /\ timed_out
  /\ drv_log = << [call |-> "setup_await", out |-> "pending"] >>

\* C6 as claimed: a stop_with_timeout whose deadline elapsed has returned
\* the timeout error and the recorded state is what it was before the call.
C6_StopTimeoutStateAsBeforeCall ==
  (op = "stop_with_timeout" /\ timed_out /\ ~dropped)
    => /\ pc = "idle"
       /\ result = ErrStopTimeout
       /\ state = pre.state

\* C6 amended: a stop_with_timeout whose deadline elapsed has returned the
\* timeout error and the recorded state is Stopping, the value stop() wrote
\* before it waited on the driver: the timeout itself writes nothing, and
\* the rest of the handle is as before the call.
C6_StopTimeoutStateStopping ==
  (op = "stop_with_timeout" /\ timed_out /\ ~dropped)
    => /\ pc = "idle"
       /\ result = ErrStopTimeout
       /\ state = "Stopping"
       /\ W = [pre EXCEPT !.state = "Stopping"]

\* C6 witness: the deadline elapsed while the driver stop was pending
C6_Witness ==
  /\ Returned("stop_with_timeout") /\ timed_out
  /\ pre.state = "Running"
  /\ drv_log = << [call |-> "stop_await", out |-> "pending"] >>

\* C7: a start_with_timeout / stop_with_timeout that returned before its
\* deadline returned what start() / stop() returns from the same handle with
\* the same driver answers, and left the handle as that call leaves it.
C7_WrappedEqualsPlain ==
  /\ (Returned("start_with_timeout") /\ ~timed_out)
       => LET r == run_start(pre, None, Outs, t_ret - start_time) IN
          /\ result = r.res
          /\ W = r.w
  /\ (Returned("stop_with_timeout") /\ ~timed_out)
       => LET r == run_stop(pre, Outs) IN
          /\ result = r.res
          /\ W = r.w

\* C7 witness: a wrapped start that provisioned and started
C7_Witness ==
  /\ Returned("start_with_timeout") /\ ~timed_out
  /\ Len(drv_log) = 2 /\ AllOk

\* C7 witness: a wrapped stop rejected by the guard
C7_WitnessRejected ==
  /\ Returned("stop_with_timeout") /\ ~timed_out
  /\ result = ErrAlreadyStopped

\* C8: a start() that passed the guard has, at its return, recorded Running
\* and the startup duration when every driver call it made succeeded, and
\* recorded Stopped and returned an error when one failed.
C8_StartOutcome ==
  (Returned("start") /\ start_guard(pre.state) = None)
    => /\ Len(drv_log) \in {1, 2}
       /\ Len(drv_log) = 2 => drv_log[1].call = "setup_await"
       /\ AllOk => /\ state = "Running"
                   /\ drv_log[Len(drv_log)].call = "start_await"
                   /\ startup_time = Some(t_ret - start_time)
                   /\ result = OkUnit
       /\ ~AllOk => /\ state = "Stopped"
                    /\ result = ErrDriver
                    /\ startup_time = pre.startup_time

\* C8 witness: a start() that provisioned and started
C8_Witness ==
  /\ Returned("start") /\ Len(drv_log) = 2 /\ AllOk /\ state = "Running"

\* C8 witness: a start() whose driver start failed
C8_WitnessFailed ==
  /\ Returned("start")
  /\ drv_log[Len(drv_log)] = [call |-> "start_await", out |-> "err"]

\* C9: a stop() that passed the guard has recorded Stopped when the driver
\* stop succeeded, and has returned the error and recorded Running when it
\* failed; the internal_stop of a cleanup() returns with the state Stopped
\* whether the driver stop succeeded or failed.
C9_StopOutcome ==
  /\ (Returned("stop") /\ stop_guard(pre.state, FALSE) = None)
       => /\ Len(drv_log) = 1
          /\ Outs[1] = "ok" => state = "Stopped" /\ result = OkUnit
          /\ Outs[1] = "err" => state = "Running" /\ result = ErrDriver
          /\ stop_ret = Some([state |-> state, res |-> result])
  /\ (Returned("cleanup") /\ drv_log # << >>)
       => /\ Len(drv_log) = 1
          /\ Outs[1] \in {"ok", "err"}
          /\ stop_ret = Some([state |-> "Stopped", res |-> OkUnit])
          /\ state = "Stopped"

\* C9 witness: a stop() whose driver stop failed
C9_Witness ==
  /\ Returned("stop")
  /\ drv_log = << [call |-> "stop_await", out |-> "err"] >>

\* C9 witness: a cleanup() whose driver stop failed
C9_WitnessCleanup ==
  /\ Returned("cleanup")
  /\ drv_log = << [call |-> "stop_await", out |-> "err"] >>

\* C10: a cleanup() called with the flag unset has returned success, with
\* the driver released, the cache and the startup duration cleared, the
\* state Stopped and the flag set, also when the driver stop failed.
C10_CleanupNeverFails ==
  (Returned("cleanup") /\ ~pre.cleaned_up)
    => /\ result = OkUnit
       /\ state = "Stopped"
       /\ async_instance = None
       /\ pre.async_instance # None => released[pre.async_instance[1]] = 1
       /\ connection_cache = None
       /\ startup_time = None
       /\ cleaned_up

\* C10 witness: a cleanup() of a Running handle with a cache entry, whose
\* driver stop failed
C10_Witness ==
  /\ Returned("cleanup")
  /\ drv_log = << [call |-> "stop_await", out |-> "err"] >>
  /\ pre.connection_cache # None
  /\ pre.startup_time # None

\* the three database operations
DbOps == {"create_database", "drop_database", "database_exists"}

\* C11: a create_database, drop_database or database_exists called while
\* the recorded state is not Running, or called with an empty name, has
\* returned at once with the database-operation error of its guard, has made
\* no driver call and has left the state, and the rest of the handle, as it
\* was.
C11_DbMisuseRejected ==
  (op \in DbOps /\ ~dropped /\ (pre.state # "Running" \/ arg = << "" >>))
    => /\ pc = "idle"
       /\ result = (IF pre.state # "Running" THEN ErrDbNotRunning
                    ELSE ErrDbEmptyName)
       /\ drv_log = << >>
       /\ state = pre.state
       /\ W = pre

\* C11 witness: create_database("") was called on a Running handle
C11_Witness ==
  Returned("create_database") /\ arg = << "" >> /\ pre.state = "Running"

\* C11 witness: database_exists("mydb") was called on a Stopping handle
C11_WitnessNotRunning ==
  Returned("database_exists") /\ arg = << "mydb" >> /\ pre.state = "Stopping"

\* C12: a get_connection_info has returned a snapshot exactly when the
\* recorded state was Running at the call; called in any other state it has
\* returned the not-running error and left the cache, and the rest of the
\* handle, as it was: no entry created, none replaced.
C12_InfoOnlyWhenRunning ==
  Returned("get_connection_info")
    => /\ result.status = "ok" <=> pre.state = "Running"
       /\ pre.state = "Running"
            => /\ connection_cache # None
               /\ result = OkVal(connection_cache[1].info)
       /\ pre.state # "Running"
            => /\ result = ErrNotRunning
               /\ connection_cache = pre.connection_cache
               /\ W = pre

\* C12 witness: get_connection_info was called on a Stopping handle that
\* holds a cache entry
C12_Witness ==
  /\ Returned("get_connection_info")
  /\ pre.state = "Stopping"
  /\ pre.connection_cache # None

\* C12 witness: get_connection_info was called on a Stopped handle with an
\* empty cache
C12_WitnessEmpty ==
  /\ Returned("get_connection_info")
  /\ pre.state = "Stopped"
  /\ pre.connection_cache = None

\* the age the entry had at the last call
AgeAtCall == t_ret - pre.connection_cache[1].created_at

\* C13: on a Running handle a get_connection_info that finds no entry
\* stores one stamped with the time of the read; one that finds an entry of
\* age up to 299 s returns the snapshot of that entry and leaves the entry,
\* its timestamp included, as it was; one that finds an entry of age 301 s
\* or more builds a snapshot and stores it with the time of the read, which
\* is newer than the old timestamp.
C13_CachedWithinWindow ==
  (Returned("get_connection_info") /\ pre.state = "Running")
    => /\ pre.connection_cache = None
            => /\ connection_cache =
                    Some([info |-> ConnectionInfo(pre.settings_port),
                          created_at |-> t_ret])
               /\ result = OkVal(connection_cache[1].info)
       /\ (pre.connection_cache # None /\ AgeAtCall <= CacheValiditySecs - 1)
            => /\ result = OkVal(pre.connection_cache[1].info)
               /\ connection_cache = pre.connection_cache
       /\ (pre.connection_cache # None /\ AgeAtCall >= CacheValiditySecs + 1)
            => /\ connection_cache =
                    Some([info |-> ConnectionInfo(pre.settings_port),
                          created_at |-> t_ret])
               /\ connection_cache[1].created_at
                    > pre.connection_cache[1].created_at
               /\ result = OkVal(connection_cache[1].info)

\* C13 witness: the entry was read 299 s after the read that created it
C13_Witness ==
  /\ Returned("get_connection_info")
  /\ pre.connection_cache # None
  /\ AgeAtCall = CacheValiditySecs - 1
  /\ ncalls = 3

\* C13 witness: the entry was read 301 s after the read that created it
C13_WitnessRebuilt ==
  /\ Returned("get_connection_info")
  /\ pre.connection_cache # None
  /\ AgeAtCall = CacheValiditySecs + 1

\* a get_connection_info on a Running handle has returned the snapshot of
\* the entry it found and left the entry as it was
ServedFromCache ==
  /\ result = OkVal(pre.connection_cache[1].info)
  /\ connection_cache = pre.connection_cache

\* it has stored an entry stamped with the time of the read
Regenerated ==
  /\ connection_cache = Some([info |-> ConnectionInfo(pre.settings_port),
                              created_at |-> t_ret])
  /\ result = OkVal(connection_cache[1].info)

\* C20 as claimed: an entry is stale exactly when its age exceeds 300 s; at
\* an age of exactly 300 s get_connection_info still serves the entry and
\* is_connection_cache_valid still returns true.
C20_StaleWhenAgeExceedsWindow ==
  /\ (Returned("get_connection_info") /\ pre.state = "Running"
        /\ pre.connection_cache # None)
       => IF AgeAtCall <= CacheValiditySecs THEN ServedFromCache
          ELSE Regenerated
  /\ (Returned("is_connection_cache_valid") /\ pre.connection_cache # None)
       => result = OkVal(AgeAtCall <= CacheValiditySecs)

\* C20 amended: an entry is stale exactly when its age has reached 300 s;
\* at an age of exactly 300 s get_connection_info builds and stores a new
\* snapshot and is_connection_cache_valid returns false, at 299 s the entry
\* is served and reported valid.  is_connection_cache_valid returns false
\* without an entry and writes nothing.
C20_StaleWhenAgeReachesWindow ==
  /\ (Returned("get_connection_info") /\ pre.state = "Running"
        /\ pre.connection_cache # None)
       => IF AgeAtCall < CacheValiditySecs THEN ServedFromCache
          ELSE Regenerated
  /\ Returned("is_connection_cache_valid")
       => /\ W = pre
          /\ pre.connection_cache = None => result = OkVal(FALSE)
          /\ pre.connection_cache # None
               => result = OkVal(AgeAtCall < CacheValiditySecs)

\* C20 witness: is_connection_cache_valid was called on an entry of age
\* exactly 300 s
C20_Witness ==
  /\ Returned("is_connection_cache_valid")
  /\ pre.connection_cache # None
  /\ AgeAtCall = CacheValiditySecs

\* C20 witness: get_connection_info was called on an entry of age exactly
\* 300 s
C20_WitnessRead ==
  /\ Returned("get_connection_info")
  /\ pre.connection_cache # None
  /\ AgeAtCall = CacheValiditySecs

\* the four fields the fingerprint is meant to cover
SameIdentity(a, b) ==
  /\ a.host = b.host
  /\ a.port = b.port
  /\ a.username = b.username
  /\ a.password = b.password

\* the caller gave all of the four fields
Given(s) ==
  s.host # None /\ s.port # None /\ s.username # None /\ s.password # None

\* C14: two handles whose settings agree on host, port, username and
\* password have the same configuration hash, whatever the other fields
\* are: both when the settings handed to the hasher agree on the four, and
\* when the caller gave the four with the same values; get_config_hash
\* returns the hash of its handle.
C14_HashOfFourFields ==
  /\ \A i, j \in 1..Len(made) :
       /\ SameIdentity(made[i].constructed, made[j].constructed)
            => made[i].config_hash = made[j].config_hash
       /\ (/\ Given(made[i].input)
           /\ SameIdentity(made[i].input, made[j].input))
            => made[i].config_hash = made[j].config_hash
  /\ hash_ret # None
       => hash_ret[1].hash = made[hash_ret[1].handle].config_hash

\* C14 witness: two handles were made from settings that give the same
\* four fields and differ in persistent, and the hash of the second was
\* read
C14_Witness ==
  /\ Len(made) = 2
  /\ Given(made[1].input)
  /\ SameIdentity(made[1].input, made[2].input)
  /\ made[1].input.persistent # made[2].input.persistent
  /\ made[1].constructed.temporary # made[2].constructed.temporary
  /\ hash_ret # None
  /\ hash_ret[1].handle = 2

\* C14 witness: two handles that differ in the port differ in the hash
C14_WitnessDiffers ==
  /\ Len(made) = 2
  /\ made[1].constructed.port # made[2].constructed.port
  /\ made[1].config_hash # made[2].config_hash

\* the last operation called the driver's setup first
ProvisionedFirst == drv_log # << >> /\ drv_log[1].call = "setup_await"

\* C15: a start() that passed the guard calls the driver's setup, once and
\* before the driver's start, exactly when the handle held no driver and
\* initialization was not disabled; a start() on a handle that holds a
\* driver constructs none and keeps the one held; a start() on a handle
\* without a driver whose driver calls all succeed ends Running, holding a
\* driver.
C15_LazyProvisioning ==
  (op = "start" /\ ~dropped /\ start_guard(pre.state) = None)
    => /\ drv_log # << >>
       /\ ProvisionedFirst
            <=> (pre.async_instance = None /\ unwrap_or(arg[1], TRUE))
       /\ \A i \in 2..Len(drv_log) : drv_log[i].call = "start_await"
       /\ pre.async_instance # None
            => /\ released = pre.released
               /\ async_instance = pre.async_instance
       /\ (pc = "idle" /\ pre.async_instance = None /\ AllOk)
            => /\ result = OkUnit
               /\ state = "Running"
               /\ async_instance # None

\* C15 witness: start() alone on a freshly constructed handle succeeded
C15_Witness ==
  /\ Returned("start")
  /\ ncalls = 1
  /\ arg = << None >>
  /\ ProvisionedFirst
  /\ state = "Running"

\* C15 witness: a start() after a failed start did not provision again
C15_WitnessHeld ==
  /\ Returned("start")
  /\ ncalls = 2
  /\ pre.async_instance # None
  /\ ~ProvisionedFirst
  /\ state = "Running"

\* the changes of the recorded state the claim allows
AllowedTransitions ==
  {<< "Stopped", "Starting" >>, << "Starting", "Running" >>,
   << "Running", "Stopping" >>, << "Stopping", "Stopped" >>,
   << "Starting", "Stopped" >>, << "Stopping", "Running" >>}

\* C16 as claimed: with setup(), start() and stop() issued one at a time,
\* the recorded state changes only along Stopped->Starting,
\* Starting->Running, Running->Stopping, Stopping->Stopped,
\* Starting->Stopped and Stopping->Running, and it is Starting whenever a
\* start() is waiting on the driver.
C16_TransitionsAsClaimed ==
  [][/\ state' # state => << state, state' >> \in AllowedTransitions
     /\ (op' = "start" /\ pc' # "idle") => state' = "Starting"]_vars

\* the driver the last setup() constructed
Provisioned == Len(pre.released) + 1

\* C17 as claimed: a setup() ends with the state Stopped; when provisioning
\* succeeded the handle holds the provisioned driver, when it failed an
\* error is returned and the handle holds no driver.
C17_FailedSetupHoldsNoDriver ==
  Returned("setup")
    => /\ state = "Stopped"
       /\ Outs = << "ok" >>
            => result = OkUnit /\ async_instance = Some(Provisioned)
       /\ Outs = << "err" >>
            => result.status = "err" /\ async_instance = None

\* C17 amended: a setup() is let through in every state and calls the
\* driver's setup once; it ends with the state Stopped; when provisioning
\* succeeded the handle holds the provisioned driver and the driver held
\* before is released; when it failed the driver's error is returned, the
\* driver that failed is released and not retained, and the handle holds
\* what it held before the call: nothing, or the driver of an earlier
\* setup() or start().
C17_FailedSetupKeepsHeldDriver ==
  /\ op = "setup" => Len(drv_log) = 1 /\ drv_log[1].call = "setup_await"
  /\ Returned("setup")
       => /\ state = "Stopped"
          /\ Outs = << "ok" >>
               => /\ result = OkUnit
                  /\ async_instance = Some(Provisioned)
                  /\ released[Provisioned] = 0
                  /\ pre.async_instance # None
                       => released[pre.async_instance[1]] = 1
          /\ Outs = << "err" >>
               => /\ result = ErrDriver
                  /\ async_instance = pre.async_instance
                  /\ released[Provisioned] = 1
                  /\ pre.async_instance # None
                       => released[pre.async_instance[1]] = 0

\* C17 witness: a setup() failed on a Running handle, which holds a driver
C17_Witness ==
  /\ Returned("setup")
  /\ Outs = << "err" >>
  /\ pre.state = "Running"
  /\ pre.async_instance # None

\* C17 witness: a setup() succeeded on a handle that held a driver
C17_WitnessReplaced ==
  /\ Returned("setup")
  /\ Outs = << "ok" >>
  /\ pre.async_instance # None

\* C18 as claimed: dropping a handle whose cleanup() has completed writes
\* no state and releases no driver; dropping a handle whose cleanup() was
\* never called takes the driver out of the handle and sets the state
\* Stopped.
C18_DropAfterCleanupDoesNothing ==
  [][(dropped' /\ ~dropped)
       => IF cleaned_up
          THEN /\ state' = state
               /\ released' = released
          ELSE /\ async_instance' = None
               /\ state' = "Stopped"]_vars

\* task t is past the guard of its start()
PastGuard(t) == task[t].pc # "idle"

\* C19: with two start() calls overlapping on one handle, the recorded
\* state is always one of the four values, a call is past the guard only
\* when the state it read was Stopped or Stopping, and a call that read
\* Running or Starting returned the guard's error.
C19_StateDefinedGuardOnOwnRead ==
  /\ state \in InstanceState
  /\ \A t \in Tasks :
       /\ PastGuard(t) => task[t].seen \in {Some("Stopped"), Some("Stopping")}
       /\ task[t].seen = Some("Running")
            => ~PastGuard(t) /\ task[t].res = ErrAlreadyRunning
       /\ task[t].seen = Some("Starting")
            => ~PastGuard(t) /\ task[t].res = ErrAlreadyStarting

\* C19 witness: both calls read Stopped, both passed the guard and both
\* are waiting on the driver's setup they invoked
C19_Witness ==
  \A t \in Tasks :
    /\ task[t].calls = 1
    /\ task[t].seen = Some("Stopped")
    /\ task[t].pc = "setup_await"

\* C19 witness: both calls read Stopped and both are waiting on the
\* driver's start they invoked
C19_WitnessStart ==
  \A t \in Tasks :
    /\ task[t].calls = 1
    /\ task[t].seen = Some("Stopped")
    /\ task[t].pc = "start_await"

\* the step is the return of a call of name
Returns(name) == op' = name /\ pc' = "idle" /\ pc = "idle" /\ ncalls' = ncalls + 1

\* C21: a clear_connection_cache returns success in every state and leaves
\* the cache empty and the rest of the handle as it was; an
\* is_connection_cache_valid writes nothing and returns true exactly when
\* there is an entry younger than 300 s, so false on an empty cache; and an
\* empty cache gets an entry only by a get_connection_info that succeeds.
C21_ClearAndValid ==
  [][/\ Returns("clear_connection_cache")
          => /\ result' = OkUnit
             /\ W' = [W EXCEPT !.connection_cache = None]
     /\ Returns("is_connection_cache_valid")
          => /\ W' = W
             /\ result' = OkVal(/\ connection_cache # None
                                /\ now - connection_cache[1].created_at
                                     < CacheValiditySecs)
     /\ (connection_cache = None /\ connection_cache' # None)
          => /\ Returns("get_connection_info")
             /\ result'.status = "ok"]_vars

\* C21 witness: clear_connection_cache removed an entry on a Stopped handle
C21_Witness ==
  /\ Returned("clear_connection_cache")
  /\ pre.state = "Stopped"
  /\ pre.connection_cache # None
  /\ connection_cache = None

\* C21 witness: is_connection_cache_valid returned false after a clear
C21_WitnessInvalid ==
  /\ Returned("is_connection_cache_valid")
  /\ state = "Running"
  /\ ncalls = 4
  /\ result = OkVal(FALSE)

\* C21 witness: is_connection_cache_valid returned true
C21_WitnessValid ==
  /\ Returned("is_connection_cache_valid")
  /\ result = OkVal(TRUE)

\* C22: from its call to its return a create_database, drop_database or
\* database_exists leaves the whole handle as it was: the state, the driver
\* reference, the cache and the startup duration; when the driver call
\* failed the driver's error is returned and the state is still Running,
\* when it succeeded the call returns success (database_exists: the bool
\* the driver gave).
C22_DbOpsChangeNothing ==
  (op \in DbOps /\ ~dropped)
    => /\ W = pre
       /\ pc # "idle" => state = "Running" /\ result = Pending
       /\ (pc = "idle" /\ drv_log # << >>)
            => /\ Len(drv_log) = 1
               /\ state = "Running"
               /\ Outs[1] = "err" => result = ErrDriver
               /\ Outs[1] = "ok" => result = OkUnit
               /\ Outs[1] \in {"true", "false"}
                    => result = OkVal(Outs[1] = "true")

\* C22 witness: the driver failed a drop_database on a Running handle that
\* has a cache entry
C22_Witness ==
  /\ Returned("drop_database")
  /\ drv_log = << [call |-> "drop_database_await", out |-> "err"] >>
  /\ connection_cache # None

\* C22 witness: the driver failed a database_exists
C22_WitnessExists ==
  /\ Returned("database_exists")
  /\ drv_log = << [call |-> "database_exists_await", out |-> "err"] >>

\* C22 witness: the driver answered a create_database with success
C22_WitnessCreated ==
  /\ Returned("create_database")
  /\ drv_log = << [call |-> "create_database_await", out |-> "ok"] >>

\* C23 as claimed: a driver held by the handle is taken out of it,
\* replaced by another one or released only by a step of cleanup() or by
\* the drop of the handle.
C23_OnlyTeardownDiscardsDriver ==
  [][(/\ async_instance # None
      /\ \/ async_instance' # async_instance
         \/ released'[async_instance[1]] # released[async_instance[1]])
       => (op' = "cleanup" \/ dropped')]_vars

\* C24: the cache changes only in three ways: a get_connection_info on a
\* Running handle returns success and stores an entry stamped with the
\* time of the read; a clear_connection_cache or a step of cleanup()
\* empties it.  Every other step (setup, start, stop, the timeout
\* wrappers, the database operations, the getters, the drop) leaves the
\* entry and its timestamp as they were.
C24_CacheWrittenByReadOnly ==
  [][connection_cache' # connection_cache
       => IF connection_cache' # None
          THEN /\ Returns("get_connection_info")
               /\ state = "Running"
               /\ result'.status = "ok"
               /\ connection_cache'[1].created_at = now
          ELSE op' \in {"clear_connection_cache", "cleanup"}]_vars

\* C24 witness: an entry created before a stop() is still there after the
\* next start()
C24_Witness ==
  /\ Returned("start")
  /\ ncalls = 4
  /\ state = "Running"
  /\ pre.state = "Stopped"
  /\ connection_cache # None
  /\ connection_cache = pre.connection_cache

\* C25: the startup duration is written only by the return of a start()
\* or start_with_timeout() that succeeded and left the handle Running, and
\* cleared only by a step of cleanup(); every other step (a failed or
\* timed-out start, a stop, a failed stop, ...) leaves it as it was.
\* get_startup_time writes nothing and returns the duration recorded, null
\* when none is.
C25_StartupTimeWrittenByStartOnly ==
  [][/\ startup_time' # startup_time
          => IF startup_time' # None
             THEN /\ IsStartOp'
                  /\ pc' = "idle"
                  /\ result' = OkUnit
                  /\ state' = "Running"
                  /\ startup_time' = Some(now - start_time)
             ELSE op' = "cleanup" /\ ~cleaned_up /\ cleaned_up'
     /\ Returns("get_startup_time")
          => /\ W' = W
             /\ result' = OkVal(startup_time)]_vars

\* C25 witness: get_startup_time returned null after start(); cleanup()
C25_Witness ==
  /\ Returned("get_startup_time")
  /\ ncalls = 3
  /\ cleaned_up
  /\ released = << 1 >>
  /\ result = OkVal(None)

\* C25 witness: get_startup_time returned the duration of the last
\* successful start after a stop()
C25_WitnessKept ==
  /\ Returned("get_startup_time")
  /\ state = "Stopped"
  /\ result.val # << None >>

\* C25 witness: a start that timed out left the duration of the earlier
\* start
C25_WitnessTimedOut ==
  /\ Returned("start_with_timeout")
  /\ timed_out
  /\ startup_time # None

\* C26 as claimed: the hash of every handle is the fingerprint of the
\* settings the handle has now.
C26_HashOfCurrentSettings ==
  \A i \in 1..Len(made) :
    made[i].config_hash = generate_config_hash(made[i].settings)

\* C26 amended: the hash of every handle is the fingerprint of the settings
\* the handle was constructed with, and get_config_hash returns it, also
\* after a start() replaced the port; it is the fingerprint of the settings
\* the handle has now as long as these have the port of the construction:
\* before the first successful start, and after it when the configured
\* port was not 0.
C26_HashOfConstructionSettings ==
  /\ \A i \in 1..Len(made) :
       /\ made[i].config_hash = generate_config_hash(made[i].constructed)
       /\ made[i].settings = [made[i].constructed EXCEPT
                               !.port = made[i].settings.port]
       /\ made[i].settings.port \in
            {made[i].constructed.port, DriverPort(made[i].constructed.port)}
       /\ made[i].constructed.port # 0
            => made[i].config_hash = generate_config_hash(made[i].settings)
  /\ hash_ret # None
       => hash_ret[1].hash =
            generate_config_hash(made[hash_ret[1].handle].constructed)

\* C26 witness: the hash was read on a handle constructed with port 0
\* after a start() made the driver's port the port of its settings
C26_Witness ==
  /\ hash_ret # None
  /\ made[hash_ret[1].handle].constructed.port = 0
  /\ made[hash_ret[1].handle].settings.port = EphemeralPort

C27_WitnessRestarted ==
  /\ Returned("get_connection_info")
  /\ ncalls = 5
  /\ Len(released) = 1
  /\ ~cleaned_up
  /\ pre.connection_cache # None
  /\ connection_cache = pre.connection_cache
  /\ pre.startup_time # None
  /\ settings_port = EphemeralPort

\* C28: whenever the recorded state is Running the handle holds a driver,
\* at the returns and between the steps of every operation; an is_healthy
\* therefore returns true exactly when the recorded state is Running.
C28_RunningHoldsDriver ==
  /\ (state = "Running" /\ ~dropped) => async_instance # None
  /\ Returned("is_healthy") => result = OkVal(state = "Running")

\* C28 witness: is_healthy returned true on a handle that was started,
\* and the handle holds the driver
C28_Witness ==
  /\ Returned("is_healthy")
  /\ result = OkVal(TRUE)
  /\ async_instance # None

\* C28 witness: is_healthy returned false on a handle that holds a driver
C28_WitnessStopped ==
  /\ Returned("is_healthy")
  /\ result = OkVal(FALSE)
  /\ async_instance # None
  /\ state = "Stopped"

\* C28 witness: is_healthy returned false after a stop that timed out
C28_WitnessStopping ==
  /\ Returned("is_healthy")
  /\ result = OkVal(FALSE)
  /\ state = "Stopping"

\* a stop_with_timeout that timed out on a Running handle leaves the state
\* Stopping with no operation in progress; from then on the state leaves
\* Stopping only in a step of one of the operations in leaving (or when the
\* handle goes out of scope), a stop() or stop_with_timeout() is rejected
\* as already stopping, changes nothing and invokes no driver call, and a
\* start() passes the guard
StoppingUntil(leaving) ==
  /\ (/\ op' = "stop_with_timeout" /\ pc' = "idle" /\ timed_out'
      /\ ~timed_out /\ pre'.state = "Running")
       => state' = "Stopping"
  /\ (pc = "idle" /\ state = "Stopping" /\ ~dropped)
       => /\ state' # "Stopping" => (op' \in leaving \/ dropped')
          /\ (ncalls' # ncalls /\ op' \in {"stop", "stop_with_timeout"})
               => /\ pc' = "idle"
                  /\ result' = ErrAlreadyStopping
                  /\ W' = W
                  /\ drv_log' = << >>
          /\ (ncalls' # ncalls /\ op' \in {"start", "start_with_timeout"})
               => /\ state' = "Starting"
                  /\ pc' # "idle"

\* C29: after a stop_with_timeout that timed out on a Running handle the
\* state is Stopping with no operation in progress and stays Stopping
\* until a start or a cleanup is called; every stop() and
\* stop_with_timeout() in between is rejected as already stopping with
\* the state unchanged and no driver call, and a start() passes the guard.
C29_StoppingUntilStartOrCleanup ==
  [][StoppingUntil({"start", "start_with_timeout", "cleanup"})]_vars

\* the orders in which a thread may hold locks: state alone, cache under
\* state, cache alone, startup_time alone
LockOrders == {<< >>, << "state" >>, << "state", "cache" >>, << "cache" >>,
               << "startup_time" >>}

\* the threads that hold the lock thread t is waiting for
WaitsFor(t) == IF Doing(t, "acq") THEN Holders(Next1(t).l) ELSE {}

\* every thread of S waits for a lock that a thread of S holds
Deadlocked(S) ==
  /\ S # {}
  /\ \A t \in S : WaitsFor(t) # {} /\ WaitsFor(t) \subseteq S

\* C30: when get_state, get_connection_info, clear_connection_cache,
\* is_connection_cache_valid, get_startup_time and the lifecycle operations
\* overlap on one handle, no set of threads waits for locks in a circle;
\* a thread holds the cache lock together with another lock only as state
\* then cache, holds the startup-time lock only alone, holds no lock while
\* it waits on the driver or on the deadline, and none once it returned.
C30_NoDeadlock ==
  /\ \A S \in SUBSET Tasks : ~Deadlocked(S)
  /\ \A t \in Tasks :
       /\ thread[t].held \in LockOrders
       /\ Doing(t, "await") => thread[t].held = << >>
       /\ thread[t].op = "idle" => thread[t].held = << >>

\* C30 witness: a cleanup waits for the cache lock while a
\* get_connection_info holds the state lock and, under it, the cache lock
C30_Witness ==
  \E t, u \in Tasks :
    /\ thread[t].op = "get_connection_info"
    /\ thread[t].held = << "state", "cache" >>
    /\ thread[u].op = "cleanup"
    /\ WaitsFor(u) = {t}
    /\ Next1(u).l = "cache"

\* C30 witness: a get_connection_info that holds the state lock waits for
\* the cache lock, which a clear_connection_cache holds
C30_WitnessNested ==
  \E t, u \in Tasks :
    /\ thread[t].op = "get_connection_info"
    /\ thread[t].held = << "state" >>
    /\ WaitsFor(t) = {u}
    /\ thread[u].op = "clear_connection_cache"

\* C30 witness: a stop waits on the driver while a get_state holds the
\* state lock
C30_WitnessAwait ==
  \E t, u \in Tasks :
    /\ thread[t].op = "stop_with_timeout"
    /\ Doing(t, "await")
    /\ thread[u].op = "get_state"
    /\ thread[u].held = << "state" >>

\* C30 witness: a start recorded its duration under the startup-time lock
\* while a get_startup_time waits for it
C30_WitnessStartupTime ==
  \E t, u \in Tasks :
    /\ thread[t].op = "start"
    /\ thread[t].held = << "startup_time" >>
    /\ thread[u].op = "get_startup_time"
    /\ WaitsFor(u) = {t}

====
